---- MODULE Spec2Model ----
(***************************************************************************)
(* AIDoctorService (app/services/ai_doctor.py): the safety-screening and   *)
(* conversation-context-assembly pipeline of process_chat_message.         *)
(*                                                                         *)
(* A text is a sequence of tokens: a token is one character of an LLM      *)
(* completion, or a whole fixed string of the program (a template, the     *)
(* system prompt, a request message).  An Optional value is <<>> (None,    *)
(* or a local not yet assigned) or <<v>>.                                  *)
(***************************************************************************)
EXTENDS Integers, Sequences, FiniteSets

VARIABLES
    max_conversation_history, \* settings.max_conversation_history
    request,                  \* the ChatRequest being processed
    pc,                       \* position inside process_chat_message
    safety_result,            \* Optional: result of the incoming safety check
    conversation_context,     \* Optional: dict returned by get_conversation_context
    messages,                 \* the prompt built by _build_conversation_messages
    completion,               \* Optional: outcome of client.chat.completions.create
    ai_response,              \* Optional: text returned by _generate_ai_response
    response_safety,          \* Optional: result of the outgoing safety check
    saved,                    \* Optional: <<conversation_id, message_id>> of the save
    raised_at,                \* Optional: the step whose exception reached the except clause
    result,                   \* Optional: how the call ended, [raised, value]
    calls                     \* collaborator calls made by this request, in order

vars == <<max_conversation_history, request, pc, safety_result, conversation_context,
          messages, completion, ai_response, response_safety, saved, raised_at,
          result, calls>>

----------------------------------------------------------------------------
(* Bounds *)

MaxHistory == 3          \* stored history length explored for the prompt builder
PipelineHistory == 1     \* stored history length explored in the pipeline
MaxContentLen == 2       \* characters of an LLM completion
MaxId == 2               \* database ids

(* Program constants *)

DefaultMaxConversationHistory == 10
MinSafetyScore == 0
MaxSafetyScore == 100

----------------------------------------------------------------------------
(* Values *)

None == <<>>
Some(v) == <<v>>
Val(o) == o[1]

Max(a, b) == IF a >= b THEN a ELSE b
Min(a, b) == IF a <= b THEN a ELSE b
Last(s) == s[Len(s)]

SeqsUpTo(S, n) == UNION {[1..k -> S] : k \in 0..n}

\* medical_templates and the fixed strings of the service
DisclaimerTemplate == <<"medical_templates.disclaimer">>
EmergencyTemplate == <<"medical_templates.emergency">>
ParagraphBreak == <<"\n\n">>
EmergencyAdvice == <<"If you need immediate medical attention ...">>
SystemPrompt == <<"settings.medical_system_prompt">>

\* what the LLM may produce: characters, some of them whitespace
Whitespace == {" "}
Chars == {"w"} \cup Whitespace
Contents == SeqsUpTo(Chars, MaxContentLen)

RequestMessages == {<<"request.message">>}
ConversationIds == {None} \cup {Some(i) : i \in 0..MaxId}
Requests == [message : RequestMessages, conversation_id : ConversationIds]

StoredMessages == {[role |-> "user", content |-> <<"h1">>],
                   [role |-> "assistant", content |-> <<"h2">>],
                   [role |-> "user", content |-> <<"h2">>]}
\* a context dict: the "messages" key is missing (None) or holds a list
Contexts(n) == {[messages |-> None]} \cup
               {[messages |-> Some(h)] : h \in SeqsUpTo(StoredMessages, n)}

ScoreValues == {MinSafetyScore, MaxSafetyScore + 1}
SafetyResults == [is_emergency : BOOLEAN, safety_score : ScoreValues,
                  flagged_content : BOOLEAN]

\* outcome of a collaborator call: it raises, or returns a value
Raises == [raised |-> TRUE, value |-> None]
Returns(v) == [raised |-> FALSE, value |-> Some(v)]
Outcomes(S) == {Raises} \cup {Returns(v) : v \in S}

\* the completion object: message.content is None or a string
Completions == {None} \cup {Some(c) : c \in Contents}
SavedIds == (1..MaxId) \X (1..MaxId)

Call(fn, arg, out) == [fn |-> fn, arg |-> arg, raised |-> out.raised]

----------------------------------------------------------------------------
(* Pure functions of the service *)

RECURSIVE LStrip(_)
LStrip(s) == IF s # <<>> /\ Head(s) \in Whitespace THEN LStrip(Tail(s)) ELSE s

RECURSIVE RStrip(_)
RStrip(s) == IF s # <<>> /\ Last(s) \in Whitespace
             THEN RStrip(SubSeq(s, 1, Len(s) - 1)) ELSE s

\* str.strip()
Strip(s) == RStrip(LStrip(s))

\* request.conversation_id or 0
OrZero(o) == IF o = None \/ Val(o) = 0 THEN 0 ELSE Val(o)

\* not request.conversation_id
Falsy(o) == o = None \/ Val(o) = 0

\* lst[:-start], the oldest messages instead of the newest
PySliceFrom_Head(lst, start) ==
    LET n == Len(lst)
        hi == IF start < 0 THEN Min(0 - start, n) ELSE n
    IN SubSeq(lst, 1, hi)

\* lst[start:] as Python evaluates it
PySliceFrom(lst, start) ==
    LET n == Len(lst)
        lo == IF start < 0 THEN Max(n + start, 0) ELSE Min(start, n)
    IN SubSeq(lst, lo + 1, n)

_build_conversation_messages(context, req, max_history) ==
    LET system == <<[role |-> "system", content |-> SystemPrompt]>>
        history == IF context.messages # None /\ Val(context.messages) # <<>>
                   THEN PySliceFrom(Val(context.messages), 0 - max_history)
                   ELSE <<>>
        current == <<[role |-> "user", content |-> req.message]>>
    IN system \o history \o current

_get_fallback_response == <<"I understand you have health-related questions ...">>

\* the disclaimer is never appended
_generate_ai_response_NoDisclaimer(out, req) ==
    IF out.raised \/ Val(out.value) = None
    THEN _get_fallback_response
    ELSE Strip(Val(Val(out.value)))

\* a failed LLM call gives an empty reply instead of the fallback text
_generate_ai_response_NoFallback(out, req) ==
    IF out.raised \/ Val(out.value) = None
    THEN <<>>
    ELSE LET text == Strip(Val(Val(out.value)))
         IN IF Falsy(req.conversation_id)
            THEN text \o ParagraphBreak \o DisclaimerTemplate
            ELSE text

\* out is the outcome of client.chat.completions.create
_generate_ai_response(out, req) ==
    IF out.raised \/ Val(out.value) = None
    THEN _get_fallback_response
    ELSE LET text == Strip(Val(Val(out.value)))
         IN IF Falsy(req.conversation_id)
            THEN text \o ParagraphBreak \o DisclaimerTemplate
            ELSE text

\* pydantic validation of ChatResponse: safety_score is None or within [0, 100]
ChatResponseValid(r) ==
    r.safety_score = None
    \/ (Val(r.safety_score) >= MinSafetyScore /\ Val(r.safety_score) <= MaxSafetyScore)

EmergencyAlert(req) ==
    [alert_type |-> "emergency_keyword", severity |-> "critical",
     conversation_id |-> OrZero(req.conversation_id)]

EmergencyResponse(req) ==
    [message |-> EmergencyTemplate \o ParagraphBreak \o EmergencyAdvice,
     conversation_id |-> OrZero(req.conversation_id),
     message_id |-> 0,
     safety_score |-> None,
     flagged_content |-> TRUE,
     emergency_detected |-> TRUE]

ErrorText == <<"I apologize, but I'm experiencing technical difficulties ...">>

\* the request's conversation_id is dropped
_handle_error_response_NoConversation(req) ==
    [message |-> ErrorText,
     conversation_id |-> 0,
     message_id |-> 0,
     safety_score |-> None,
     flagged_content |-> FALSE,
     emergency_detected |-> FALSE]

_handle_error_response(req) ==
    [message |-> ErrorText,
     conversation_id |-> OrZero(req.conversation_id),
     message_id |-> 0,
     safety_score |-> None,
     flagged_content |-> FALSE,
     emergency_detected |-> FALSE]

\* the safety metadata is taken from the outgoing check
BuildChatResponse_FromOutgoing(ai, ids, sr, rs) ==
    [message |-> ai,
     conversation_id |-> ids[1],
     message_id |-> ids[2],
     safety_score |-> Some(rs.safety_score),
     flagged_content |-> rs.flagged_content,
     emergency_detected |-> rs.is_emergency]

\* step 8 of process_chat_message
BuildChatResponse(ai, ids, sr, rs) ==
    [message |-> ai,
     conversation_id |-> ids[1],
     message_id |-> ids[2],
     safety_score |-> Some(sr.safety_score),
     flagged_content |-> sr.flagged_content,
     emergency_detected |-> sr.is_emergency]

\* no short circuit on an emergency
AfterIncomingCheck_NoShortCircuit(sr) == "step2"

\* where process_chat_message goes after the incoming safety check
AfterIncomingCheck(sr) == IF sr.is_emergency THEN "emergency" ELSE "step2"

\* the incoming message is checked a second time
OutgoingCheckText_Incoming(req, ai) == req.message

\* the text handed to the outgoing safety check
OutgoingCheckText(req, ai) == ai

\* what save_conversation receives
SaveArgs(req, ai, sr, rs) ==
    [request |-> req, ai_response |-> ai, safety_result |-> sr, response_safety |-> rs]

\* the exception is raised again
ExceptHandler_Reraise(req) == Raises

\* the except clause of process_chat_message
ExceptHandler(req) == Returns(_handle_error_response(req))

----------------------------------------------------------------------------
(* process_chat_message, one action per await point *)

Locals == <<safety_result, conversation_context, messages, completion, ai_response,
            response_safety, saved>>

Fresh ==
    /\ pc = "step1"
    /\ safety_result = None
    /\ conversation_context = None
    /\ messages = <<>>
    /\ completion = None
    /\ ai_response = None
    /\ response_safety = None
    /\ saved = None
    /\ raised_at = None
    /\ result = None
    /\ calls = <<>>

Init ==
    /\ max_conversation_history = DefaultMaxConversationHistory
    /\ request \in Requests
    /\ Fresh

\* an exception raised inside the try block at step s
Throw(s) ==
    /\ pc' = "except"
    /\ raised_at' = Some(s)

\* step 1: the safety check of the incoming message
CheckIncoming ==
    /\ pc = "step1"
    /\ \E out \in Outcomes(SafetyResults) :
        /\ calls' = Append(calls, Call("check_message_safety", request.message, out))
        /\ IF out.raised
           THEN /\ Throw("step1")
                /\ UNCHANGED safety_result
           ELSE /\ safety_result' = out.value
                /\ pc' = AfterIncomingCheck(Val(out.value))
                /\ UNCHANGED raised_at
    /\ UNCHANGED <<max_conversation_history, request, conversation_context, messages,
                   completion, ai_response, response_safety, saved, result>>

\* _handle_emergency_situation, awaited inside the try block
HandleEmergency ==
    /\ pc = "emergency"
    /\ \E out \in Outcomes({TRUE}) :
        /\ calls' = Append(calls, Call("log_safety_alert", EmergencyAlert(request), out))
        /\ IF out.raised
           THEN /\ Throw("emergency")
                /\ UNCHANGED result
           ELSE /\ result' = Some(Returns(EmergencyResponse(request)))
                /\ pc' = "done"
                /\ UNCHANGED raised_at
    /\ UNCHANGED <<max_conversation_history, request, Locals>>

\* step 2: the conversation context
GetContext ==
    /\ pc = "step2"
    /\ \E out \in Outcomes(Contexts(PipelineHistory)) :
        /\ calls' = Append(calls, Call("get_conversation_context", request.conversation_id, out))
        /\ IF out.raised
           THEN /\ Throw("step2")
                /\ UNCHANGED conversation_context
           ELSE /\ conversation_context' = out.value
                /\ pc' = "step3"
                /\ UNCHANGED raised_at
    /\ UNCHANGED <<max_conversation_history, request, safety_result, messages, completion,
                   ai_response, response_safety, saved, result>>

\* steps 3 and 4: the prompt and the LLM call (synchronous up to the next await)
GenerateResponse ==
    /\ pc = "step3"
    /\ LET prompt == _build_conversation_messages(Val(conversation_context), request,
                                                  max_conversation_history)
       IN \E out \in Outcomes(Completions) :
            /\ messages' = prompt
            /\ calls' = Append(calls, Call("chat.completions.create", prompt, out))
            /\ completion' = Some(out)
            /\ ai_response' = Some(_generate_ai_response(out, request))
    /\ pc' = "step5"
    /\ UNCHANGED <<max_conversation_history, request, safety_result, conversation_context,
                   response_safety, saved, raised_at, result>>

\* step 5: the safety check of the reply
CheckOutgoing ==
    /\ pc = "step5"
    /\ \E out \in Outcomes(SafetyResults) :
        /\ calls' = Append(calls, Call("check_message_safety",
                                       OutgoingCheckText(request, Val(ai_response)), out))
        /\ IF out.raised
           THEN /\ Throw("step5")
                /\ UNCHANGED response_safety
           ELSE /\ response_safety' = out.value
                /\ pc' = "step7"
                /\ UNCHANGED raised_at
    /\ UNCHANGED <<max_conversation_history, request, safety_result, conversation_context,
                   messages, completion, ai_response, saved, result>>

\* step 7: save_conversation
SaveConversation ==
    /\ pc = "step7"
    /\ \E out \in Outcomes(SavedIds) :
        /\ calls' = Append(calls, Call("save_conversation",
                                       SaveArgs(request, Val(ai_response),
                                                Val(safety_result), Val(response_safety)),
                                       out))
        /\ IF out.raised
           THEN /\ Throw("step7")
                /\ UNCHANGED saved
           ELSE /\ saved' = out.value
                /\ pc' = "step8"
                /\ UNCHANGED raised_at
    /\ UNCHANGED <<max_conversation_history, request, safety_result, conversation_context,
                   messages, completion, ai_response, response_safety, result>>

\* step 8: the ChatResponse is constructed (and validated) and returned
BuildResponse ==
    /\ pc = "step8"
    /\ LET r == BuildChatResponse(Val(ai_response), Val(saved), Val(safety_result),
                                  Val(response_safety))
       IN IF ChatResponseValid(r)
          THEN /\ result' = Some(Returns(r))
               /\ pc' = "done"
               /\ UNCHANGED raised_at
          ELSE /\ Throw("step8")
               /\ UNCHANGED result
    /\ UNCHANGED <<max_conversation_history, request, Locals, calls>>

\* except Exception: return await self._handle_error_response(request)
HandleException ==
    /\ pc = "except"
    /\ result' = Some(ExceptHandler(request))
    /\ pc' = "done"
    /\ UNCHANGED <<max_conversation_history, request, Locals, raised_at, calls>>

\* the service takes the next request
NextRequest ==
    /\ pc = "done"
    /\ request' \in Requests
    /\ pc' = "step1"
    /\ safety_result' = None
    /\ conversation_context' = None
    /\ messages' = <<>>
    /\ completion' = None
    /\ ai_response' = None
    /\ response_safety' = None
    /\ saved' = None
    /\ raised_at' = None
    /\ result' = None
    /\ calls' = <<>>
    /\ UNCHANGED max_conversation_history

Next ==
    \/ CheckIncoming
    \/ HandleEmergency
    \/ GetContext
    \/ GenerateResponse
    \/ CheckOutgoing
    \/ SaveConversation
    \/ BuildResponse
    \/ HandleException
    \/ NextRequest

Spec == Init /\ [][Next]_vars

----------------------------------------------------------------------------
(* _build_conversation_messages on its own, over every context and setting *)

HistorySettings == ((0 - MaxHistory - 1)..(MaxHistory + 1)) \cup {DefaultMaxConversationHistory}

InitBuild ==
    /\ max_conversation_history \in HistorySettings
    /\ request \in Requests
    /\ Fresh

\* the incoming check passes and the context arrives
ContextArrives ==
    /\ pc = "step1"
    /\ \E sr \in {s \in SafetyResults : ~s.is_emergency}, ctx \in Contexts(MaxHistory) :
        /\ safety_result' = Some(sr)
        /\ conversation_context' = Some(ctx)
    /\ pc' = "step3"
    /\ UNCHANGED <<max_conversation_history, request, messages, completion, ai_response,
                   response_safety, saved, raised_at, result, calls>>

\* step 3
BuildMessages ==
    /\ pc = "step3"
    /\ messages' = _build_conversation_messages(Val(conversation_context), request,
                                                max_conversation_history)
    /\ pc' = "built"
    /\ UNCHANGED <<max_conversation_history, request, safety_result, conversation_context,
                   completion, ai_response, response_safety, saved, raised_at, result, calls>>

NextBuild ==
    \/ ContextArrives
    \/ BuildMessages

SpecBuild == InitBuild /\ [][NextBuild]_vars

----------------------------------------------------------------------------
(* Vocabulary of the properties *)

Done == pc = "done"
Returned == result # None /\ ~Val(result).raised
Response == Val(Val(result).value)

\* the incoming safety check returned and reported is_emergency
IncomingEmergency == safety_result # None /\ Val(safety_result).is_emergency

\* the call returned from step 8, the normal path
NormalReturned == Done /\ Returned /\ raised_at = None /\ ~IncomingEmergency

CallsOf(fn) == {i \in 1..Len(calls) : calls[i].fn = fn}

LLMRaised == completion # None /\ Val(completion).raised
LLMGaveText == completion # None /\ ~Val(completion).raised
               /\ Val(Val(completion).value) # None
LLMText == Val(Val(Val(completion).value))

StoredHistory ==
    IF Val(conversation_context).messages = None THEN <<>>
    ELSE Val(Val(conversation_context).messages)

----------------------------------------------------------------------------
\* C1: whenever the incoming safety check reports is_emergency, the call returns the
\* emergency response (emergency_detected and flagged_content set, message_id 0,
\* conversation_id = request.conversation_id or 0, the emergency template text),
\* also when log_safety_alert fails.
C1_EmergencyAlwaysAnswered ==
    (Done /\ IncomingEmergency) =>
        /\ Returned
        /\ Response.emergency_detected = TRUE
        /\ Response.flagged_content = TRUE
        /\ Response.message_id = 0
        /\ Response.conversation_id = OrZero(request.conversation_id)
        /\ Response.message = EmergencyTemplate \o ParagraphBreak \o EmergencyAdvice

\* C2: once the incoming check reported is_emergency, the context is never fetched,
\* the LLM never called and save_conversation never called in that request, and by
\* the time the call has ended an alert of type emergency_keyword and severity
\* critical has been handed to log_safety_alert.
C2_EmergencyShortCircuit ==
    IncomingEmergency =>
        /\ CallsOf("get_conversation_context") = {}
        /\ CallsOf("chat.completions.create") = {}
        /\ CallsOf("save_conversation") = {}
        /\ (result # None =>
              \E i \in CallsOf("log_safety_alert") :
                  /\ calls[i].arg.alert_type = "emergency_keyword"
                  /\ calls[i].arg.severity = "critical")

C2_Witness ==
    /\ Done /\ IncomingEmergency /\ Returned
    /\ Response.emergency_detected
    /\ Len(calls) = 2

\* C4: the call ends only by returning, never by raising, and what it returns is the
\* normal response, the emergency response or the technical-difficulties response;
\* until it has ended there is no result and a next step exists.
C4_AlwaysReturnsOneResponse ==
    /\ (~Done => result = None /\ ENABLED Next)
    /\ (Done =>
          /\ Returned
          /\ \/ /\ saved # None /\ response_safety # None
                /\ Response = [message |-> Val(ai_response),
                               conversation_id |-> Val(saved)[1],
                               message_id |-> Val(saved)[2],
                               safety_score |-> Some(Val(safety_result).safety_score),
                               flagged_content |-> Val(safety_result).flagged_content,
                               emergency_detected |-> Val(safety_result).is_emergency]
             \/ /\ IncomingEmergency
                /\ Response.message = EmergencyTemplate \o ParagraphBreak \o EmergencyAdvice
                /\ Response.emergency_detected
             \/ /\ raised_at # None
                /\ Response.message = ErrorText
                /\ Response.message_id = 0)

\* the response construction itself failed, after a successful save
C4_Witness ==
    /\ Done /\ Returned
    /\ raised_at = Some("step8")
    /\ Response.message = ErrorText

\* C5: a save_conversation call is preceded by a safety check of the very text it
\* saves, made after the LLM call; the text of a normal-path response is that text.
C5_ReplyCheckedBeforeSaveAndReturn ==
    /\ \A j \in CallsOf("save_conversation") :
          \E k \in CallsOf("chat.completions.create"), i \in CallsOf("check_message_safety") :
              /\ k < i /\ i < j
              /\ calls[i].arg = calls[j].arg.ai_response
    /\ (NormalReturned =>
          \E k \in CallsOf("chat.completions.create"), i \in CallsOf("check_message_safety"),
             j \in CallsOf("save_conversation") :
              /\ k < i /\ i < j
              /\ ~calls[i].raised
              /\ calls[i].arg = Response.message)

C5_Witness ==
    /\ NormalReturned
    /\ LLMGaveText
    /\ calls[4].fn = "check_message_safety"
    /\ calls[4].arg = Response.message

\* C6 as stated: on the normal path the reply of a new conversation ends with the
\* disclaimer template, and the reply of a request with a non-zero conversation_id
\* is the (stripped) LLM output without the template.
C6_DisclaimerOnEveryNewConversation ==
    NormalReturned =>
        /\ (request.conversation_id = None =>
              /\ Response.message # <<>>
              /\ <<Last(Response.message)>> = DisclaimerTemplate)
        /\ (~Falsy(request.conversation_id) =>
              /\ LLMGaveText
              /\ Response.message = Strip(LLMText))

\* C6 amended: when the LLM call returned text, the reply is the stripped text, with
\* the paragraph break and the disclaimer template appended exactly when
\* conversation_id is absent or 0; when the LLM call failed the reply is the fixed
\* fallback text, without the template, whatever the conversation_id.
C6_DisclaimerWhenLLMSucceeds ==
    NormalReturned =>
        IF LLMGaveText
        THEN IF Falsy(request.conversation_id)
             THEN Response.message = Strip(LLMText) \o ParagraphBreak \o DisclaimerTemplate
             ELSE Response.message = Strip(LLMText)
        ELSE /\ Response.message = _get_fallback_response
             /\ <<Last(Response.message)>> # DisclaimerTemplate

C6_Witness ==
    /\ NormalReturned
    /\ request.conversation_id = None
    /\ LLMGaveText
    /\ LLMText = <<" ", "w">>
    /\ Response.message = <<"w">> \o ParagraphBreak \o DisclaimerTemplate

C9_MetadataFromIncomingCheck ==
    NormalReturned =>
        /\ Response.emergency_detected = FALSE
        /\ Response.safety_score = Some(Val(safety_result).safety_score)
        /\ Response.flagged_content = Val(safety_result).flagged_content
        /\ \E j \in CallsOf("save_conversation") :
              /\ calls[j].arg.safety_result = Val(safety_result)
              /\ calls[j].arg.response_safety = Val(response_safety)

\* the outgoing check reported an emergency and disagrees with the incoming one
C9_Witness ==
    /\ NormalReturned
    /\ Val(response_safety).is_emergency
    /\ Val(response_safety).flagged_content # Val(safety_result).flagged_content
    /\ Val(response_safety).safety_score # Val(safety_result).safety_score

\* C10: an exception reaching the except clause gives the technical-difficulties
\* response (message_id 0, conversation_id = request.conversation_id or 0, both
\* flags FALSE) with no further collaborator call; save_conversation was not called
\* when the failure came before step 7; save_conversation and the LLM are called
\* at most once per request.
C10_FailureGivesErrorResponse ==
    /\ Cardinality(CallsOf("save_conversation")) <= 1
    /\ Cardinality(CallsOf("chat.completions.create")) <= 1
    /\ (raised_at # None =>
          /\ (Val(raised_at) \in {"step1", "emergency", "step2", "step5"} =>
                CallsOf("save_conversation") = {})
          /\ (Val(raised_at) # "step8" => calls[Len(calls)].raised)
          /\ (Val(raised_at) = "step8" => calls[Len(calls)].fn = "save_conversation"))
    /\ (Done /\ raised_at # None =>
          /\ Returned
          /\ Response.message = ErrorText
          /\ Response.message_id = 0
          /\ Response.conversation_id = OrZero(request.conversation_id)
          /\ Response.emergency_detected = FALSE
          /\ Response.flagged_content = FALSE)

C10_Witness ==
    /\ Done /\ Returned
    /\ raised_at = Some("step7")
    /\ request.conversation_id = Some(MaxId)
    /\ Response.conversation_id = MaxId
    /\ Cardinality(CallsOf("save_conversation")) = 1

----------------------------------------------------------------------------
(* The prompt builder, under SpecBuild *)

Built == pc = "built"
HistoryInPrompt == SubSeq(messages, 2, Len(messages) - 1)

\* C3: for every stored history and every integer setting (stated here for the
\* settings from 0 up) the prompt holds at most max_conversation_history history
\* messages, so at most max_conversation_history + 2 entries.
C3_HistoryBounded ==
    (Built /\ max_conversation_history >= 0) =>
        /\ Len(HistoryInPrompt) <= max_conversation_history
        /\ Len(messages) <= max_conversation_history + 2

\* C7: the prompt starts with the system prompt (role system), ends with the request
\* message (role user), and holds in between a contiguous suffix of the stored
\* history, in order and unchanged (its last max_conversation_history messages when
\* the setting is positive); an empty or missing history gives the two entries.
C7_PromptShape ==
    Built =>
        LET h == StoredHistory
            n == Len(messages)
        IN /\ n >= 2
           /\ messages[1] = [role |-> "system", content |-> SystemPrompt]
           /\ messages[n] = [role |-> "user", content |-> request.message]
           /\ \E k \in 0..Len(h) : HistoryInPrompt = SubSeq(h, k + 1, Len(h))
           /\ (h = <<>> => n = 2)
           /\ (max_conversation_history >= 1 =>
                 Len(HistoryInPrompt) = Min(max_conversation_history, Len(h)))

\* a proper, non-empty suffix of a history of distinct messages
C7_Witness ==
    /\ Built
    /\ Len(StoredHistory) = 3
    /\ StoredHistory[1] # StoredHistory[3]
    /\ Len(messages) = 4
    /\ messages[3] = StoredHistory[3]

====
